---- MODULE Spec2Model ----
(***************************************************************************)
(* A state-machine model of src/custom.py: the custom_vjp operator, its    *)
(* dispatch on the functorch interpreter stack, the scoped stack           *)
(* operations pop_stack / push_stack, the autograd boundaries CustomFuncA  *)
(* and CustomFuncB, and the three rules (torch, vmap, grad).               *)
(*                                                                         *)
(* The program is single-threaded and recursive; the model keeps the       *)
(* Python call stack explicitly in `frames` (one record per active         *)
(* function), the interpreter stack in `stack`, and moves one function     *)
(* segment (the code between two calls) per step.                          *)
(***************************************************************************)
EXTENDS Integers, Sequences, FiniteSets, TLC

VARIABLES
  rules_map,     \* TransformableOperator.rules_map of custom_vjp: kind -> rule
  stack,         \* the interpreter stack of functorch (_C), bottom first
  frames,        \* the Python call stack, outermost first
  mode,          \* "idle" | "run" | "ret" | "exc": what the top frame sees
  reg,           \* the value being returned, or the error being raised
  outcome,       \* what the last outermost call gave its caller
  entry_stack,   \* history: the interpreter stack when the outermost call began
  call_args,     \* history: the operands of the last call of the operator
  call_fns,      \* history: the forward_fn and backward_fn of that call
  side_channel,  \* the nonlocal side_channel cells of the active custom_vjp_vmap calls
  graph,         \* the autograd nodes (ctx) the last forward recorded
  ev,            \* history: what the last step did
  push_log       \* history: the levels _C.pushTop has returned so far

vars == <<rules_map, stack, frames, mode, reg, outcome, entry_stack, call_args, call_fns,
          side_channel, graph, ev, push_log>>

(***************************************************************************)
(* Bounds of the model.                                                    *)
(***************************************************************************)
MaxDepth == 2      \* most layers the environment stacks up
MaxArgs == 2       \* most operands of one call
MaxVal == 2        \* tensor elements are 1..MaxVal

(***************************************************************************)
(* Values.  Every value is a record with a `tag`.                          *)
(***************************************************************************)
NoBdim == 0 - 1
None == [tag |-> "None"]
Tensor(data, wraps) == [tag |-> "T", data |-> data, wraps |-> wraps]
Tup(items) == [tag |-> "tup", items |-> items]
Exc(type, a, b) == [tag |-> "exc", type |-> type, a |-> a, b |-> b]
IsTensor(v) == v.tag = "T"
IsTup(v) == v.tag = "tup"

Kinds == {"grad", "vmap"}
OperatorName == "custom_vjp"
NoRule == "none"
NoDl == [kind |-> "none", layerId |-> 0]
NoFn == [base |-> "none", role |-> "none", wraps |-> <<>>]

(***************************************************************************)
(* The interpreter stack of functorch._C.  A DynamicLayer dl carries its   *)
(* kind and the layerId it was created with; on the stack it has a level.  *)
(* Levels are automatic: pushTop gives the layer the level 1 + the current *)
(* depth (custom.py line 252: nesting vmap under grad "requires            *)
(* non-automatic level indices").  batch_bwd relies on it: it wraps the    *)
(* gradients at level and the saved operand at new_level (lines 141-143)   *)
(* and multiplies them, and the assertion of line 250 holds only when the  *)
(* two are the same level, the one the popped layer had.                   *)
(***************************************************************************)
are_transforms_active(stk) == Len(stk) > 0
top_layer(stk) == [kind |-> stk[Len(stk)].kind, level |-> stk[Len(stk)].level]
\* faulty variant: the level skips one
pushTopLevel_skips(stk) == Len(stk) + 2
pushTopLevel(stk) == Len(stk) + 1
pushTop(stk, dl) ==
  Append(stk, [kind |-> dl.kind, layerId |-> dl.layerId, level |-> pushTopLevel(stk)])
popTopLayer(stk) == [kind |-> stk[Len(stk)].kind, layerId |-> stk[Len(stk)].layerId]
popTop(stk) == SubSeq(stk, 1, Len(stk) - 1)

\* _C._wrap_for_grad / _C._unwrap_for_grad / _C._add_batch_dim / _C.unpackBatched
WrapForGrad(x, level) ==
  Tensor(x.data, Append(x.wraps, [t |-> "grad", level |-> level, bdim |-> NoBdim]))
UnwrapForGrad(x, level) ==
  IF /\ Len(x.wraps) > 0
     /\ x.wraps[Len(x.wraps)].t = "grad"
     /\ x.wraps[Len(x.wraps)].level = level
  THEN Tensor(x.data, SubSeq(x.wraps, 1, Len(x.wraps) - 1))
  ELSE x
AddBatchDim(x, bdim, level) ==
  Tensor(x.data, Append(x.wraps, [t |-> "batched", level |-> level, bdim |-> bdim]))
IsBatchedAt(x, level) ==
  /\ Len(x.wraps) > 0
  /\ x.wraps[Len(x.wraps)].t = "batched"
  /\ x.wraps[Len(x.wraps)].level = level
UnpackBatchedTensor(x, level) ==
  IF IsBatchedAt(x, level)
  THEN Tensor(x.data, SubSeq(x.wraps, 1, Len(x.wraps) - 1))
  ELSE x
UnpackBatchedBdim(x, level) ==
  IF IsBatchedAt(x, level) THEN x.wraps[Len(x.wraps)].bdim ELSE NoBdim

(***************************************************************************)
(* torch.utils._pytree: tree_flatten, tree_unflatten, tree_map over        *)
(* tuples of tensors.                                                      *)
(***************************************************************************)
RECURSIVE TreeFlatten(_)
TreeFlatten(v) ==
  IF IsTup(v)
  THEN LET RECURSIVE Cat(_)
           Cat(i) == IF i > Len(v.items) THEN <<>>
                     ELSE TreeFlatten(v.items[i]) \o Cat(i + 1)
       IN Cat(1)
  ELSE <<v>>

RECURSIVE TreeSpec(_)
TreeSpec(v) ==
  IF IsTup(v)
  THEN [tag |-> "tup", items |-> [i \in 1..Len(v.items) |-> TreeSpec(v.items[i])]]
  ELSE [tag |-> "leaf"]

RECURSIVE NumLeaves(_)
NumLeaves(spec) ==
  IF spec.tag = "tup"
  THEN LET RECURSIVE Sum(_)
           Sum(i) == IF i > Len(spec.items) THEN 0
                     ELSE NumLeaves(spec.items[i]) + Sum(i + 1)
       IN Sum(1)
  ELSE 1

RECURSIVE TreeUnflattenAt(_, _, _)
\* the subtree of shape `spec` whose leaves are flat[off+1], flat[off+2], ...
TreeUnflattenAt(flat, spec, off) ==
  IF spec.tag = "tup"
  THEN LET RECURSIVE Before(_)
           Before(i) == IF i = 0 THEN 0
                        ELSE Before(i - 1) + NumLeaves(spec.items[i])
       IN Tup([i \in 1..Len(spec.items) |->
                 TreeUnflattenAt(flat, spec.items[i], off + Before(i - 1))])
  ELSE flat[off + 1]
TreeUnflatten(flat, spec) == TreeUnflattenAt(flat, spec, 0)

RECURSIVE TreeMapUnwrap(_, _)
TreeMapUnwrap(v, level) ==
  IF IsTup(v)
  THEN Tup([i \in 1..Len(v.items) |-> TreeMapUnwrap(v.items[i], level)])
  ELSE UnwrapForGrad(v, level)
RECURSIVE TreeMapWrap(_, _)
TreeMapWrap(v, level) ==
  IF IsTup(v)
  THEN Tup([i \in 1..Len(v.items) |-> TreeMapWrap(v.items[i], level)])
  ELSE WrapForGrad(v, level)

(***************************************************************************)
(* Tensor arithmetic of the compute backend, elementwise with broadcasting *)
(* of one-element tensors.  The result of an operation on wrapped tensors  *)
(* is wrapped at every level one of its operands is wrapped at; a binary   *)
(* batching rule on operands with different batch dims moves the batch dim *)
(* to the front.  SinT is an integer stand-in for the sine: injective on   *)
(* 1..MaxVal and different from v and from 2 * v.                          *)
(***************************************************************************)
SinT(v) == v * v + 3
Max(a, b) == IF a >= b THEN a ELSE b
Elem(d, i) == IF Len(d) = 1 THEN d[1] ELSE d[i]
WrapLevels(ws) == {ws[i].level : i \in DOMAIN ws}
WrapAt(ws, l) == ws[CHOOSE i \in DOMAIN ws : ws[i].level = l]
RECURSIVE SortedLevels(_)
SortedLevels(S) ==
  IF S = {} THEN <<>>
  ELSE LET m == CHOOSE x \in S : \A y \in S : x <= y
       IN <<m>> \o SortedLevels(S \ {m})
MergeWraps(a, b) ==
  IF a = b THEN a
  ELSE LET ls == SortedLevels(WrapLevels(a) \cup WrapLevels(b))
       IN [i \in 1..Len(ls) |->
             IF ls[i] \in WrapLevels(a) /\ ls[i] \in WrapLevels(b)
             THEN IF WrapAt(a, ls[i]) = WrapAt(b, ls[i]) THEN WrapAt(a, ls[i])
                  ELSE [WrapAt(a, ls[i]) EXCEPT !.bdim = 0]
             ELSE IF ls[i] \in WrapLevels(a) THEN WrapAt(a, ls[i])
             ELSE WrapAt(b, ls[i])]
TorchSin(x) == Tensor([i \in 1..Len(x.data) |-> SinT(x.data[i])], x.wraps)
TorchMul(x, y) ==
  Tensor([i \in 1..Max(Len(x.data), Len(y.data)) |-> Elem(x.data, i) * Elem(y.data, i)],
         MergeWraps(x.wraps, y.wraps))
TorchAdd(x, y) ==
  Tensor([i \in 1..Max(Len(x.data), Len(y.data)) |-> Elem(x.data, i) + Elem(y.data, i)],
         MergeWraps(x.wraps, y.wraps))
Scalar(v) == Tensor(<<v>>, <<>>)

\* f_fwd and f_bwd, the example operator's forward_fn and backward_fn
f_fwd(x) == Tup(<<TorchSin(x), x>>)
\* gO * 2 * x + gx, left to right, each intermediate tensor computed once
f_bwd(gO, gx, x) ==
  CHOOSE r \in {TorchAdd(b, gx) :
                  b \in {TorchMul(a, x) : a \in {TorchMul(gO, Scalar(2))}}} : TRUE

(***************************************************************************)
(* Function values.  A forward_fn or backward_fn is a base function with   *)
(* the closures batch_fwd / batch_bwd of custom_vjp_vmap around it, the    *)
(* outermost closure last; a closure captures dl, bdim, level and the      *)
(* side_channel cell of the custom_vjp_vmap call that made it.             *)
(***************************************************************************)
FwdFns == {"f_fwd", "fwd_raises"}
BwdFns == {"f_bwd", "bwd_raises"}
\* forward_fns that save a nested structure: (x, (sin(x), x)) and ((x,), (), x)
NestedFwdFns == {"fwd_saves_pair", "fwd_saves_deep"}
NestedSaved(base, x) ==
  IF base = "fwd_saves_pair" THEN Tup(<<x, Tup(<<TorchSin(x), x>>)>>)
  ELSE Tup(<<Tup(<<x>>), Tup(<<>>), x>>)
\* the (forward_fn, backward_fn) pairs of a call: the example operator, and
\* the example operator with one of the two functions raising
FnPairs == {<<"f_fwd", "f_bwd">>, <<"fwd_raises", "f_bwd">>, <<"f_fwd", "bwd_raises">>}
Fn(base, role) == [base |-> base, role |-> role, wraps |-> <<>>]
Closure(f, dl, bdim, level) ==
  [f EXCEPT !.wraps = Append(@, [dl |-> dl, bdim |-> bdim, level |-> level])]
InnerFn(f) == [f EXCEPT !.wraps = SubSeq(@, 1, Len(@) - 1)]
OuterEnv(f) == f.wraps[Len(f.wraps)]

(***************************************************************************)
(* The Python call stack.                                                  *)
(***************************************************************************)
\* `entry` is history: the interpreter stack when the function was entered
Frame(fn, fwd, bwd, args, stk) ==
  [fn |-> fn, pc |-> "start", fwd |-> fwd, bwd |-> bwd, args |-> args,
   level |-> 0, new_level |-> 0, dl |-> NoDl, bdim |-> NoBdim, node |-> 0,
   entry |-> stk]
Top == frames[Len(frames)]
Popped == SubSeq(frames, 1, Len(frames) - 1)
Calling(caller, callee) == Append([frames EXCEPT ![Len(frames)] = caller], callee)
\* the frame of a call of function value f: the body of the base function, or
\* the `inner` of its outermost closure
CallFn(f, args, stk) ==
  IF Len(f.wraps) = 0 THEN Frame(f.base, NoFn, NoFn, args, stk)
  ELSE [Frame(IF f.role = "fwd" THEN "batch_fwd" ELSE "batch_bwd",
              InnerFn(f), InnerFn(f), args, stk)
          EXCEPT !.level = OuterEnv(f).level, !.dl = OuterEnv(f).dl,
                 !.bdim = OuterEnv(f).bdim]
At(fn, pc, m) == /\ frames # <<>>
                 /\ mode = m
                 /\ Top.fn = fn
                 /\ Top.pc = pc

NoCell == [set |-> FALSE, bdims |-> <<>>]
Ev(type, a, b) == [type |-> type, a |-> a, b |-> b]
LogPush(stk) == push_log \cup {pushTopLevel(stk)}
\* what an outermost call (a call of the operator, or a backward run by the
\* autograd engine) gave its caller; node and grads tell which backward it was
Outcome(what, status, value, node, grads) ==
  [what |-> what, status |-> status, value |-> value, node |-> node,
   grads |-> grads]
NoOutcome == Outcome("none", "none", None, 0, <<0, 0>>)
\* the caller of the last outermost call has taken its result
Consumed == Outcome("done", "none", None, 0, <<0, 0>>)

Init ==
  /\ rules_map = [k \in Kinds \cup {"torch"} |-> NoRule]
  /\ stack = <<>>
  /\ frames = <<>>
  /\ mode = "idle"
  /\ reg = None
  /\ outcome = NoOutcome
  /\ entry_stack = <<>>
  /\ call_args = <<>>
  /\ call_fns = <<"none", "none">>
  /\ side_channel = [l \in 1..MaxDepth |-> NoCell]
  /\ graph = <<>>
  /\ ev = Ev("init", None, None)
  /\ push_log = {}

(***************************************************************************)
(* The environment: rule registration (custom.py lines 165-167), the       *)
(* transforms grad(...) and vmap(...) entering and leaving, a call of the  *)
(* operator, and the autograd engine running a recorded backward.          *)
(***************************************************************************)
\* faulty variant: the rules of 'torch' and 'grad' are registered crosswise
Registrations_crossed == {<<"torch", "custom_vjp_grad">>,
                          <<"vmap", "custom_vjp_vmap">>,
                          <<"grad", "custom_vjp_torch">>}
Registrations == {<<"torch", "custom_vjp_torch">>,
                  <<"vmap", "custom_vjp_vmap">>,
                  <<"grad", "custom_vjp_grad">>}
Fixed == <<rules_map, outcome, entry_stack, call_args, call_fns>>

impl(rm, transform, rule) == [rm EXCEPT ![transform] = rule]

\* the rules are registered once, at startup, before any transform or call
Impl(k, r) ==
  /\ mode = "idle"
  /\ outcome.what = "none"
  /\ stack = <<>>
  /\ rules_map[k] # r
  /\ rules_map' = impl(rules_map, k, r)
  /\ ev' = Ev("env", None, None)
  /\ UNCHANGED <<stack, frames, mode, reg, outcome, entry_stack, call_args, call_fns,
                 side_channel, graph, push_log>>

\* grad(...) / vmap(...) is entered around the calls of the operator: the
\* backward of a call runs inside the transforms of its forward or after some
\* of them have exited (lines 195, 207, 248), never inside a later transform.
\* A call that recorded no node leaves nothing behind once its caller has
\* its result: the record of the call and the closure cells go with it.
EnterTransform(k) ==
  /\ mode = "idle"
  /\ Len(stack) < MaxDepth
  /\ graph = <<>>
  /\ stack' = pushTop(stack, [kind |-> k, layerId |-> pushTopLevel(stack)])
  /\ push_log' = LogPush(stack)
  /\ ev' = Ev("env", None, None)
  /\ outcome' = Consumed
  /\ entry_stack' = <<>>
  /\ call_args' = <<>>
  /\ call_fns' = <<"none", "none">>
  /\ side_channel' = [l \in 1..MaxDepth |-> NoCell]
  /\ UNCHANGED <<rules_map, frames, mode, reg, graph>>

ExitTransform ==
  /\ mode = "idle"
  /\ are_transforms_active(stack)
  /\ stack' = popTop(stack)
  /\ ev' = Ev("env", None, None)
  /\ outcome' = Consumed
  /\ entry_stack' = <<>>
  /\ call_args' = IF graph = <<>> THEN <<>> ELSE call_args
  /\ call_fns' = IF graph = <<>> THEN <<"none", "none">> ELSE call_fns
  /\ side_channel' = IF graph = <<>> THEN [l \in 1..MaxDepth |-> NoCell]
                     ELSE side_channel
  /\ UNCHANGED <<rules_map, frames, mode, reg, graph, push_log>>

\* the operand as the transforms on the stack hand it to the function they
\* transform: wrapped once per layer, bottom layer innermost
RECURSIVE WrapAll(_, _, _)
WrapAll(x, stk, i) ==
  IF i > Len(stk) THEN x
  ELSE WrapAll(IF stk[i].kind = "vmap" THEN AddBatchDim(x, 0, stk[i].level)
               ELSE WrapForGrad(x, stk[i].level), stk, i + 1)
Data(stk) ==
  IF \E i \in DOMAIN stk : stk[i].kind = "vmap"
  THEN {<<v, MaxVal + 1 - v>> : v \in 1..MaxVal}
  ELSE {<<v>> : v \in 1..MaxVal}
\* one operand is enough for the forward functions whose saved value differs
\* from f_fwd's in structure or layout only
OneData(stk) == {d \in Data(stk) : d[1] = 1}

Call(fb, bb, n, d) ==
  /\ mode = "idle"
  /\ call_args' = [i \in 1..n |-> WrapAll(Tensor(d, <<>>), stack, 1)]
  /\ call_fns' = <<fb, bb>>
  /\ frames' = <<Frame("custom_vjp", Fn(fb, "fwd"), Fn(bb, "bwd"), call_args', stack)>>
  /\ mode' = "run"
  /\ reg' = None
  /\ outcome' = Outcome("dispatch", "pending", None, 0, <<0, 0>>)
  /\ entry_stack' = stack
  /\ side_channel' = [l \in 1..MaxDepth |-> NoCell]
  /\ graph' = <<>>
  /\ ev' = Ev("call", None, None)
  /\ UNCHANGED <<rules_map, stack, push_log>>

\* the gradients of the two outputs (result, saved) the engine hands to a
\* backward: (1, 0) for the gradient of the primary result alone
OutputGrads == {<<1, 0>>, <<2, 1>>}

Backward(i, gO, gx) ==
  /\ mode = "idle"
  /\ i \in DOMAIN graph
  /\ frames' = <<[Frame("backward", NoFn, graph[i].bwd,
                        <<Scalar(gO), Scalar(gx)>>, stack) EXCEPT !.node = i]>>
  /\ mode' = "run"
  /\ reg' = None
  /\ outcome' = Outcome("backward", "pending", None, i, <<gO, gx>>)
  /\ entry_stack' = stack
  /\ ev' = Ev("backward", None, None)
  /\ UNCHANGED <<rules_map, stack, call_args, call_fns, side_channel, graph, push_log>>

Finish ==
  /\ frames = <<>>
  /\ mode \in {"ret", "exc"}
  /\ outcome' = [outcome EXCEPT
                   !.status = IF mode = "ret" THEN "returned" ELSE "raised",
                   !.value = reg]
  /\ mode' = "idle"
  /\ reg' = None
  /\ ev' = Ev("finish", None, None)
  /\ UNCHANGED <<rules_map, stack, frames, entry_stack, call_args, call_fns, side_channel,
                 graph, push_log>>

\* a function without a handler around the call it made lets the error through
Propagate ==
  /\ frames # <<>>
  /\ mode = "exc"
  /\ Top.pc \notin {"in_pop", "in_push"}
  /\ frames' = Popped
  /\ ev' = Ev("propagate", None, None)
  /\ UNCHANGED <<rules_map, stack, mode, reg, outcome, entry_stack, call_args, call_fns,
                 side_channel, graph, push_log>>

(***************************************************************************)
(* get_topmost_layer and TransformableOperator.__call__                    *)
(***************************************************************************)
\* faulty variant: the bottom layer is taken for the top one
get_topmost_layer_bottom(stk) ==
  IF ~are_transforms_active(stk) THEN "torch" ELSE stk[1].kind
get_topmost_layer(stk) ==
  IF ~are_transforms_active(stk) THEN "torch"
  ELSE IF top_layer(stk).kind = "" THEN "torch"
  ELSE top_layer(stk).kind

\* Python's recursion limit, scaled to the model: deeper than any call chain
\* of a dispatch under MaxDepth layers
RecursionLimit == 4 * MaxDepth + 6

\* faulty variant: the message names the operator where the kind belongs
NoRuleError_no_kind(name, dynamic_layer) == Exc("RuntimeError", name, name)
NoRuleError(name, dynamic_layer) == Exc("RuntimeError", name, dynamic_layer)
\* fn = self.rules_map[dynamic_layer]; fn(*args, **kwargs)
RuleCall(rm, dynamic_layer, fwd, bwd, args, stk) ==
  Frame(rm[dynamic_layer], fwd, bwd, args, stk)
\* return fn(*args, **kwargs)
RuleResult(r) == r

Dispatch ==
  /\ At("custom_vjp", "start", "run")
  /\ LET dynamic_layer == get_topmost_layer(stack) IN
       IF Len(frames) >= RecursionLimit
       THEN /\ frames' = Popped
            /\ mode' = "exc"
            /\ reg' = Exc("RecursionError", OperatorName, "")
            /\ ev' = [type |-> "raise", fn |-> "custom_vjp"]
       ELSE IF rules_map[dynamic_layer] = NoRule
       THEN /\ frames' = Popped
            /\ mode' = "exc"
            /\ reg' = NoRuleError(OperatorName, dynamic_layer)
            /\ ev' = [type |-> "no_rule", layer |-> dynamic_layer, stack |-> stack,
                      depth |-> Len(frames)]
       ELSE /\ frames' = Calling([Top EXCEPT !.pc = "called"],
                                 RuleCall(rules_map, dynamic_layer, Top.fwd,
                                          Top.bwd, Top.args, stack))
            /\ ev' = [type |-> "dispatch", layer |-> dynamic_layer]
            /\ UNCHANGED <<mode, reg>>
  /\ UNCHANGED <<stack, side_channel, graph, push_log>>
  /\ UNCHANGED Fixed

DispatchReturn ==
  /\ At("custom_vjp", "called", "ret")
  /\ frames' = Popped
  /\ reg' = RuleResult(reg)
  /\ ev' = [type |-> "dispatch_return", rule_result |-> reg]
  /\ UNCHANGED <<stack, mode, side_channel, graph, push_log>>
  /\ UNCHANGED Fixed

(***************************************************************************)
(* pop_stack and push_stack: what entering and leaving the scope does to   *)
(* the interpreter stack.  `raised` tells whether the body is left by an   *)
(* error; the `finally` clause runs either way and the error goes on.      *)
(***************************************************************************)
\* faulty variant: the top layer is read and left on the stack
pop_stack_enter_peek(stk) == [dl |-> popTopLayer(stk), stack |-> stk]
\* faulty variant: the layer below the top one is removed as well
pop_stack_enter_two(stk) == [dl |-> popTopLayer(stk), stack |-> popTop(popTop(stk))]
pop_stack_enter(stk) == [dl |-> popTopLayer(stk), stack |-> popTop(stk)]
\* faulty variant: no try/finally, the layer is restored on a normal exit only
pop_stack_exit_no_finally(stk, dl, raised) ==
  IF raised THEN stk ELSE pushTop(stk, dl)
pop_stack_exit(stk, dl, raised) == pushTop(stk, dl)
\* faulty variant: yields the level of the layer below the pushed one
push_stack_enter_old_level(stk, dl) ==
  [level |-> Len(stk), stack |-> pushTop(stk, dl)]
push_stack_enter(stk, dl) == [level |-> pushTopLevel(stk), stack |-> pushTop(stk, dl)]
\* faulty variant: no try/finally, the layer is popped on a normal exit only
push_stack_exit_no_finally(stk, raised) == IF raised THEN stk ELSE popTop(stk)
push_stack_exit(stk, raised) == popTop(stk)
\* faulty variant: the scope swallows the error; the code after it fails on its own
scope_swallows(e) == Exc("UnboundLocalError", "result", "")
\* the error that leaves a `with` block an error entered
scope_reraise(e) == e

(***************************************************************************)
(* The user functions: f_fwd, f_bwd, and a forward_fn / backward_fn that   *)
(* raises.                                                                 *)
(***************************************************************************)
UserFwd ==
  /\ At("f_fwd", "start", "run")
  /\ frames' = Popped
  /\ IF Len(Top.args) # 1
     THEN /\ mode' = "exc"
          /\ reg' = Exc("TypeError", "f_fwd", "")
     ELSE /\ mode' = "ret"
          /\ reg' = f_fwd(Top.args[1])
  /\ ev' = [type |-> "user", fn |-> "f_fwd"]
  /\ UNCHANGED <<stack, side_channel, graph, push_log>>
  /\ UNCHANGED Fixed

UserFwdRaises ==
  /\ At("fwd_raises", "start", "run")
  /\ frames' = Popped
  /\ mode' = "exc"
  /\ reg' = Exc("UserError", "fwd_fn", "")
  /\ ev' = [type |-> "raise", fn |-> "fwd_raises"]
  /\ UNCHANGED <<stack, side_channel, graph, push_log>>
  /\ UNCHANGED Fixed

UserBwd ==
  /\ At("f_bwd", "start", "run")
  /\ frames' = Popped
  /\ IF Len(Top.args) # 3
     THEN /\ mode' = "exc"
          /\ reg' = Exc("TypeError", "f_bwd", "")
     ELSE /\ mode' = "ret"
          /\ reg' = f_bwd(Top.args[1], Top.args[2], Top.args[3])
  /\ ev' = [type |-> "user", fn |-> "f_bwd"]
  /\ UNCHANGED <<stack, side_channel, graph, push_log>>
  /\ UNCHANGED Fixed

\* a forward_fn that saves x with its batch dim moved: (sin(x), moved x);
\* the batch dim of a batched tensor becomes 1, any other tensor is as it was
MoveBdim(x) ==
  IF Len(x.wraps) > 0 /\ x.wraps[Len(x.wraps)].t = "batched"
  THEN Tensor(x.data, [x.wraps EXCEPT ![Len(x.wraps)].bdim = 1])
  ELSE x
UserFwdMoves ==
  /\ At("fwd_saves_moved", "start", "run")
  /\ frames' = Popped
  /\ IF Len(Top.args) # 1
     THEN /\ mode' = "exc"
          /\ reg' = Exc("TypeError", "fwd_saves_moved", "")
     ELSE /\ mode' = "ret"
          /\ reg' = Tup(<<TorchSin(Top.args[1]), MoveBdim(Top.args[1])>>)
  /\ ev' = [type |-> "user", fn |-> "fwd_saves_moved"]
  /\ UNCHANGED <<stack, side_channel, graph, push_log>>
  /\ UNCHANGED Fixed

\* a forward_fn whose saved values are nested, and its backward_fn, which
\* takes x from the first leaf of the saved values: gO * 2 * x
UserFwdNested ==
  /\ frames # <<>>
  /\ mode = "run"
  /\ Top.fn \in NestedFwdFns
  /\ Top.pc = "start"
  /\ frames' = Popped
  /\ IF Len(Top.args) # 1
     THEN /\ mode' = "exc"
          /\ reg' = Exc("TypeError", Top.fn, "")
     ELSE /\ mode' = "ret"
          /\ reg' = Tup(<<TorchSin(Top.args[1]), NestedSaved(Top.fn, Top.args[1])>>)
  /\ ev' = [type |-> "user", fn |-> Top.fn]
  /\ UNCHANGED <<stack, side_channel, graph, push_log>>
  /\ UNCHANGED Fixed

UserBwdNested ==
  /\ At("bwd_nested", "start", "run")
  /\ frames' = Popped
  /\ IF Len(Top.args) # 3 \/ ~IsTup(Top.args[3])
     THEN /\ mode' = "exc"
          /\ reg' = Exc("TypeError", "bwd_nested", "")
     ELSE /\ mode' = "ret"
          /\ reg' = f_bwd(Top.args[1], Scalar(0), TreeFlatten(Top.args[3])[1])
  /\ ev' = [type |-> "user", fn |-> "bwd_nested"]
  /\ UNCHANGED <<stack, side_channel, graph, push_log>>
  /\ UNCHANGED Fixed

UserBwdRaises ==
  /\ At("bwd_raises", "start", "run")
  /\ frames' = Popped
  /\ mode' = "exc"
  /\ reg' = Exc("UserError", "bwd_fn", "")
  /\ ev' = [type |-> "raise", fn |-> "bwd_raises"]
  /\ UNCHANGED <<stack, side_channel, graph, push_log>>
  /\ UNCHANGED Fixed

(***************************************************************************)
(* generate_autograd_function: CustomFuncA (level 0) and CustomFuncB.      *)
(***************************************************************************)
\* faulty variant: the primary result is saved for the backward
SavedForBackward_result(result, saved) == result
\* flat_saved, saved_spec = tree_flatten(saved); ctx.saved_spec = saved_spec;
\* ctx.save_for_backward(*flat_saved)
SavedForBackward(result, saved) == saved
Node(cls, level, bwd, result, saved) ==
  [cls |-> cls, level |-> level, bwd |-> bwd,
   saved_tensors |-> TreeFlatten(SavedForBackward(result, saved)),
   saved_spec |-> TreeSpec(SavedForBackward(result, saved)),
   \* history: the saved values this forward returned
   fwd_saved |-> saved]
IsPair(r) == IsTup(r) /\ Len(r.items) = 2
\* return result, saved
ForwardResult(result, saved) == Tup(<<result, saved>>)

AForward ==
  /\ At("CustomFuncA_forward", "start", "run")
  /\ frames' = Calling([Top EXCEPT !.pc = "called"],
                       CallFn(Top.fwd, Top.args, stack))
  /\ ev' = [type |-> "A_forward"]
  /\ UNCHANGED <<stack, mode, reg, side_channel, graph, push_log>>
  /\ UNCHANGED Fixed

AForwardReturn ==
  /\ At("CustomFuncA_forward", "called", "ret")
  /\ frames' = Popped
  /\ IF ~IsPair(reg)
     THEN /\ mode' = "exc"
          /\ reg' = Exc("ValueError", "CustomFuncA", "unpack")
          /\ UNCHANGED graph
     ELSE /\ graph' = Append(graph, Node("A", 0, Top.bwd, reg.items[1], reg.items[2]))
          /\ reg' = ForwardResult(reg.items[1], reg.items[2])
          /\ UNCHANGED mode
  /\ ev' = [type |-> "A_forward_return", fwd_result |-> reg]
  /\ UNCHANGED <<stack, side_channel, push_log>>
  /\ UNCHANGED Fixed

BForward ==
  /\ At("CustomFuncB_forward", "start", "run")
  /\ IF ~are_transforms_active(stack)
     THEN /\ frames' = Popped
          /\ mode' = "exc"
          /\ reg' = Exc("RuntimeError", "popTop", "empty")
          /\ ev' = [type |-> "empty_stack", fn |-> "CustomFuncB_forward"]
          /\ UNCHANGED stack
     ELSE LET p == pop_stack_enter(stack)
              unwrapped_args == [i \in 1..Len(Top.args) |->
                                   TreeMapUnwrap(Top.args[i], Top.level)]
          IN /\ stack' = p.stack
             /\ frames' = Calling([Top EXCEPT !.pc = "in_pop", !.dl = p.dl],
                                  Frame("custom_vjp", Top.fwd, Top.bwd,
                                        unwrapped_args, p.stack))
             /\ ev' = [type |-> "pop_stack_enter", fn |-> "CustomFuncB_forward",
                       dl |-> p.dl, before |-> stack]
             /\ UNCHANGED <<mode, reg>>
  /\ UNCHANGED <<side_channel, graph, push_log>>
  /\ UNCHANGED Fixed

PopExitEv(fn, raised) ==
  [type |-> "pop_stack_exit", fn |-> fn, dl |-> Top.dl, raised |-> raised,
   entry |-> Top.entry, body_entry |-> popTop(Top.entry), body_exit |-> stack,
   level |-> pushTopLevel(stack), repeat |-> pushTopLevel(stack) \in push_log]

BForwardReturn ==
  /\ At("CustomFuncB_forward", "in_pop", "ret")
  /\ stack' = pop_stack_exit(stack, Top.dl, FALSE)
  /\ push_log' = LogPush(stack)
  /\ frames' = Popped
  /\ IF ~IsPair(reg)
     THEN /\ mode' = "exc"
          /\ reg' = Exc("ValueError", "CustomFuncB", "unpack")
          /\ UNCHANGED graph
     ELSE LET wrapped == TreeMapWrap(Tup(<<reg.items[1], reg.items[2]>>), Top.level)
          IN /\ graph' = Append(graph, Node("B", Top.level, Top.bwd, wrapped.items[1],
                                           wrapped.items[2]))
             /\ reg' = ForwardResult(wrapped.items[1], wrapped.items[2])
             /\ UNCHANGED mode
  /\ ev' = PopExitEv("CustomFuncB_forward", FALSE)
  /\ UNCHANGED side_channel
  /\ UNCHANGED Fixed

BForwardRaise ==
  /\ At("CustomFuncB_forward", "in_pop", "exc")
  /\ stack' = pop_stack_exit(stack, Top.dl, TRUE)
  /\ push_log' = LogPush(stack)
  /\ frames' = Popped
  /\ reg' = scope_reraise(reg)
  /\ ev' = PopExitEv("CustomFuncB_forward", TRUE)
  /\ UNCHANGED <<mode, side_channel, graph>>
  /\ UNCHANGED Fixed

(***************************************************************************)
(* custom_vjp_torch and custom_vjp_grad                                    *)
(***************************************************************************)
\* faulty variant: only the primary result is returned
custom_vjp_torch_primary(applied) == applied.items[1]
\* return CustomFunc.apply(*args)
custom_vjp_torch_result(applied) == applied

TorchRule ==
  /\ At("custom_vjp_torch", "start", "run")
  /\ frames' = Calling([Top EXCEPT !.pc = "called"],
                       Frame("CustomFuncA_forward", Top.fwd, Top.bwd, Top.args, stack))
  /\ ev' = [type |-> "rule", rule |-> "custom_vjp_torch"]
  /\ UNCHANGED <<stack, mode, reg, side_channel, graph, push_log>>
  /\ UNCHANGED Fixed

TorchRuleReturn ==
  /\ At("custom_vjp_torch", "called", "ret")
  /\ frames' = Popped
  /\ reg' = custom_vjp_torch_result(reg)
  /\ ev' = [type |-> "rule_return", rule |-> "custom_vjp_torch"]
  /\ UNCHANGED <<stack, mode, side_channel, graph, push_log>>
  /\ UNCHANGED Fixed

GradRule ==
  /\ At("custom_vjp_grad", "start", "run")
  /\ IF ~are_transforms_active(stack)
     THEN /\ frames' = Popped
          /\ mode' = "exc"
          /\ reg' = Exc("RuntimeError", "top_layer", "empty")
          /\ ev' = [type |-> "empty_stack", fn |-> "custom_vjp_grad"]
     ELSE /\ frames' = Calling([Top EXCEPT !.pc = "called"],
                               [Frame("CustomFuncB_forward", Top.fwd, Top.bwd,
                                      Top.args, stack)
                                  EXCEPT !.level = top_layer(stack).level])
          /\ ev' = [type |-> "rule", rule |-> "custom_vjp_grad"]
          /\ UNCHANGED <<mode, reg>>
  /\ UNCHANGED <<stack, side_channel, graph, push_log>>
  /\ UNCHANGED Fixed

GradRuleReturn ==
  /\ At("custom_vjp_grad", "called", "ret")
  /\ frames' = Popped
  /\ ev' = [type |-> "rule_return", rule |-> "custom_vjp_grad"]
  /\ UNCHANGED <<stack, mode, reg, side_channel, graph, push_log>>
  /\ UNCHANGED Fixed

(***************************************************************************)
(* custom_vjp_vmap with its closures batch_fwd, wrap and batch_bwd.        *)
(* tree_map2(fn, a, b) asserts that a and b flatten to the same structure; *)
(* side_channel is a flat tuple, one batch dim per flattened leaf.         *)
(***************************************************************************)
FlatSpec(n) == [tag |-> "tup", items |-> [i \in 1..n |-> [tag |-> "leaf"]]]
TreeMap2Matches(tree, cell) ==
  /\ cell.set
  /\ TreeSpec(tree) = FlatSpec(Len(cell.bdims))
\* tree_map2(wrap, tree, side_channel) with wrap = _add_batch_dim(., ., level)
TreeMap2Wrap(tree, bdims, level) ==
  Tup([i \in 1..Len(tree.items) |-> AddBatchDim(tree.items[i], bdims[i], level)])

\* faulty variant: operands after the first are let through
AssertOneOperand_at_least(args) == Len(args) >= 1
\* assert len(args) == 1
AssertOneOperand(args) == Len(args) = 1

VmapRule ==
  /\ At("custom_vjp_vmap", "start", "run")
  /\ IF ~are_transforms_active(stack)
     THEN /\ frames' = Popped
          /\ mode' = "exc"
          /\ reg' = Exc("RuntimeError", "top_layer", "empty")
          /\ ev' = [type |-> "empty_stack", fn |-> "custom_vjp_vmap"]
          /\ UNCHANGED <<stack, side_channel>>
     ELSE IF ~AssertOneOperand(Top.args)
     THEN /\ frames' = Popped
          /\ mode' = "exc"
          /\ reg' = Exc("AssertionError", "custom_vjp_vmap", "len(args) == 1")
          /\ ev' = [type |-> "raise", fn |-> "custom_vjp_vmap",
                    entry |-> Top.entry, nargs |-> Len(Top.args),
                    pushes |-> push_log]
          /\ UNCHANGED <<stack, side_channel>>
     ELSE LET level == top_layer(stack).level
              x == UnpackBatchedTensor(Top.args[1], level)
              bdim == UnpackBatchedBdim(Top.args[1], level)
              p == pop_stack_enter(stack)
          IN /\ stack' = p.stack
             /\ side_channel' = [side_channel EXCEPT ![level] = NoCell]
             /\ frames' = Calling([Top EXCEPT !.pc = "in_pop", !.dl = p.dl,
                                              !.level = level, !.bdim = bdim],
                                  Frame("custom_vjp",
                                        Closure(Top.fwd, p.dl, bdim, level),
                                        Closure(Top.bwd, p.dl, bdim, level),
                                        <<x>>, p.stack))
             /\ ev' = [type |-> "pop_stack_enter", fn |-> "custom_vjp_vmap",
                       dl |-> p.dl, before |-> stack]
             /\ UNCHANGED <<mode, reg>>
  /\ UNCHANGED <<graph, push_log>>
  /\ UNCHANGED Fixed

VmapRuleReturn ==
  /\ At("custom_vjp_vmap", "in_pop", "ret")
  /\ stack' = pop_stack_exit(stack, Top.dl, FALSE)
  /\ push_log' = LogPush(stack)
  /\ frames' = Popped
  /\ IF ~TreeMap2Matches(reg, side_channel[Top.level])
     THEN /\ mode' = "exc"
          /\ reg' = Exc("AssertionError", "tree_map2", "spec1 == spec2")
     ELSE /\ reg' = TreeMap2Wrap(reg, side_channel[Top.level].bdims, Top.level)
          /\ UNCHANGED mode
  /\ ev' = PopExitEv("custom_vjp_vmap", FALSE)
  /\ UNCHANGED <<side_channel, graph>>
  /\ UNCHANGED Fixed

VmapRuleRaise ==
  /\ At("custom_vjp_vmap", "in_pop", "exc")
  /\ stack' = pop_stack_exit(stack, Top.dl, TRUE)
  /\ push_log' = LogPush(stack)
  /\ frames' = Popped
  /\ reg' = scope_reraise(reg)
  /\ ev' = PopExitEv("custom_vjp_vmap", TRUE)
  /\ UNCHANGED <<mode, side_channel, graph>>
  /\ UNCHANGED Fixed

PushEnterEv(fn, p) ==
  [type |-> "push_stack_enter", fn |-> fn, dl |-> Top.dl, level |-> Top.level,
   new_level |-> p.level, before |-> stack, after |-> p.stack,
   repeat |-> p.level \in push_log]
PushExitEv(fn, raised) ==
  [type |-> "push_stack_exit", fn |-> fn, dl |-> Top.dl, raised |-> raised,
   entry |-> Top.entry, body_entry |-> pushTop(Top.entry, Top.dl),
   body_exit |-> stack]

BatchFwd ==
  /\ At("batch_fwd", "start", "run")
  /\ LET p == push_stack_enter(stack, Top.dl)
         x == AddBatchDim(Top.args[1], Top.bdim, p.level)
     IN /\ stack' = p.stack
        /\ frames' = Calling([Top EXCEPT !.pc = "in_push", !.new_level = p.level],
                             CallFn(Top.fwd, <<x>>, p.stack))
        /\ ev' = PushEnterEv("batch_fwd", p)
  /\ push_log' = LogPush(stack)
  /\ UNCHANGED <<mode, reg, side_channel, graph>>
  /\ UNCHANGED Fixed

\* faulty variant: without `nonlocal` the assignment leaves the cell as it was
RecordBdims_local(cells, level, flat_bdims) == cells
\* nonlocal side_channel; side_channel = flat_bdims
RecordBdims(cells, level, flat_bdims) ==
  [cells EXCEPT ![level] = [set |-> TRUE, bdims |-> flat_bdims]]

BatchFwdReturn ==
  /\ At("batch_fwd", "in_push", "ret")
  /\ LET flat_results == TreeFlatten(reg)
         results_spec == TreeSpec(reg)
         flat_tensors == [i \in 1..Len(flat_results) |->
                            UnpackBatchedTensor(flat_results[i], Top.new_level)]
         flat_bdims == [i \in 1..Len(flat_results) |->
                          UnpackBatchedBdim(flat_results[i], Top.new_level)]
     IN /\ side_channel' = RecordBdims(side_channel, Top.level, flat_bdims)
        /\ reg' = TreeUnflatten(flat_tensors, results_spec)
  /\ stack' = push_stack_exit(stack, FALSE)
  /\ frames' = Popped
  /\ ev' = PushExitEv("batch_fwd", FALSE)
  /\ UNCHANGED <<mode, graph, push_log>>
  /\ UNCHANGED Fixed

BatchFwdRaise ==
  /\ At("batch_fwd", "in_push", "exc")
  /\ stack' = push_stack_exit(stack, TRUE)
  /\ frames' = Popped
  /\ reg' = scope_reraise(reg)
  /\ ev' = PushExitEv("batch_fwd", TRUE)
  /\ UNCHANGED <<mode, side_channel, graph, push_log>>
  /\ UNCHANGED Fixed

BatchBwd ==
  /\ At("batch_bwd", "start", "run")
  /\ LET p == push_stack_enter(stack, Top.dl)
         x == AddBatchDim(Top.args[3], Top.bdim, p.level)
         cell == side_channel[Top.level]
         grads == Tup(<<Top.args[1], Top.args[2]>>)
     IN /\ IF ~TreeMap2Matches(grads, cell)
           THEN \* the assertion of tree_map2 fails inside the scope
                /\ ev' = [type |-> "push_stack_exit", fn |-> "batch_bwd",
                          dl |-> Top.dl, raised |-> TRUE, entry |-> stack,
                          body_entry |-> p.stack, body_exit |-> p.stack]
                /\ stack' = push_stack_exit(p.stack, TRUE)
                /\ frames' = Popped
                /\ mode' = "exc"
                /\ reg' = Exc("AssertionError", "tree_map2", "spec1 == spec2")
           ELSE LET wrapped == TreeMap2Wrap(grads, cell.bdims, Top.level)
                IN /\ ev' = PushEnterEv("batch_bwd", p)
                   /\ stack' = p.stack
                   /\ frames' = Calling(
                        [Top EXCEPT !.pc = "in_push", !.new_level = p.level],
                        CallFn(Top.bwd, <<wrapped.items[1], wrapped.items[2], x>>,
                               p.stack))
                   /\ UNCHANGED <<mode, reg>>
  /\ push_log' = LogPush(stack)
  /\ UNCHANGED <<side_channel, graph>>
  /\ UNCHANGED Fixed

\* faulty variant: the gradient is returned as f gave it, still batched
batch_bwd_result_batched(gx_new, new_level) == gx_new
\* gx_new, gx_bdim = _C.unpackBatched(gx_new, new_level);
\* gx_new.movedim(gx_bdim, bdim) moves data only: the tensor stays unwrapped
batch_bwd_result(gx_new, new_level) == UnpackBatchedTensor(gx_new, new_level)

BatchBwdReturn ==
  /\ At("batch_bwd", "in_push", "ret")
  /\ reg' = batch_bwd_result(reg, Top.new_level)
  /\ stack' = push_stack_exit(stack, FALSE)
  /\ frames' = Popped
  /\ ev' = PushExitEv("batch_bwd", FALSE)
  /\ UNCHANGED <<mode, side_channel, graph, push_log>>
  /\ UNCHANGED Fixed

BatchBwdRaise ==
  /\ At("batch_bwd", "in_push", "exc")
  /\ stack' = push_stack_exit(stack, TRUE)
  /\ frames' = Popped
  /\ reg' = scope_reraise(reg)
  /\ ev' = PushExitEv("batch_bwd", TRUE)
  /\ UNCHANGED <<mode, side_channel, graph, push_log>>
  /\ UNCHANGED Fixed

(***************************************************************************)
(* CustomFuncA.backward / CustomFuncB.backward                             *)
(***************************************************************************)
\* faulty variant: the flat sequence is passed on, the shape descriptor unused
SavedOf_flat(node) ==
  IF Len(node.saved_tensors) = 1 THEN node.saved_tensors[1]
  ELSE Tup(node.saved_tensors)
\* saved = tree_unflatten(ctx.saved_tensors, ctx.saved_spec)
SavedOf(node) == TreeUnflatten(node.saved_tensors, node.saved_spec)
\* bwd_fn(*args, saved)
BackwardArgs(grads, saved) == Append(grads, saved)

BackwardStart ==
  /\ At("backward", "start", "run")
  /\ frames' = Calling([Top EXCEPT !.pc = "called"],
                       CallFn(Top.bwd,
                              BackwardArgs(Top.args, SavedOf(graph[Top.node])),
                              stack))
  /\ ev' = [type |-> "backward_start", node |-> Top.node]
  /\ UNCHANGED <<stack, mode, reg, side_channel, graph, push_log>>
  /\ UNCHANGED Fixed

BackwardReturn ==
  /\ At("backward", "called", "ret")
  /\ frames' = Popped
  /\ ev' = [type |-> "backward_return"]
  /\ UNCHANGED <<stack, mode, reg, side_channel, graph, push_log>>
  /\ UNCHANGED Fixed

(***************************************************************************)
(* The specification.                                                      *)
(***************************************************************************)
Step ==
  \/ Dispatch \/ DispatchReturn
  \/ TorchRule \/ TorchRuleReturn
  \/ GradRule \/ GradRuleReturn
  \/ VmapRule \/ VmapRuleReturn \/ VmapRuleRaise
  \/ AForward \/ AForwardReturn
  \/ BForward \/ BForwardReturn \/ BForwardRaise
  \/ BatchFwd \/ BatchFwdReturn \/ BatchFwdRaise
  \/ BatchBwd \/ BatchBwdReturn \/ BatchBwdRaise
  \/ BackwardStart \/ BackwardReturn
  \/ UserFwd \/ UserFwdRaises \/ UserBwd \/ UserBwdRaises
  \/ UserFwdNested \/ UserBwdNested \/ UserFwdMoves
  \/ Propagate
  \/ Finish

Env ==
  \/ \E reg_ \in Registrations : Impl(reg_[1], reg_[2])
  \/ \E k \in Kinds : EnterTransform(k)
  \/ ExitTransform
  \/ \E fp \in FnPairs, n \in 0..MaxArgs :
       \E d \in Data(stack) : Call(fp[1], fp[2], n, d)
  \/ \E fb \in NestedFwdFns, d \in OneData(stack) : Call(fb, "bwd_nested", 1, d)
  \/ \E d \in OneData(stack) : Call("fwd_saves_moved", "f_bwd", 1, d)
  \/ \E i \in DOMAIN graph, g \in OutputGrads : Backward(i, g[1], g[2])

Next == Step \/ Env

Spec == Init /\ [][Next]_vars
\* every started function segment is eventually executed: the interpreter
\* never stops in the middle of a call
FairSpec == Spec /\ WF_vars(Step)

(***************************************************************************)
(* Properties.                                                             *)
(***************************************************************************)
RuleNames == {"custom_vjp_torch", "custom_vjp_vmap", "custom_vjp_grad"}
\* the kind a dispatch entered with interpreter stack stk has to select
ExpectedKind(stk) == IF stk = <<>> THEN "torch" ELSE stk[Len(stk)].kind
CallEnded == frames = <<>> /\ outcome.status \in {"returned", "raised"}
Raised(type) == outcome.status = "raised" /\ outcome.value.type = type

\* C1: when an outermost call of the operator (or a backward the engine runs)
\* has returned or raised, whatever was raised and at whatever depth, the
\* interpreter stack holds the same layers in the same order as at entry.
C1_StackBalance ==
  (frames = <<>> /\ outcome.what \in {"dispatch", "backward"}) =>
     stack = entry_stack
C1_Witness ==
  /\ CallEnded
  /\ outcome.what = "dispatch"
  /\ Raised("UserError")
  /\ Len(entry_stack) >= 2
  /\ \E i \in DOMAIN entry_stack : entry_stack[i].kind = "vmap"
  /\ stack = entry_stack

\* C2: every dispatch invokes the rule registered for the kind of the layer on
\* top of the interpreter stack ("torch" when the stack is empty) with the
\* forward_fn, backward_fn and operands of the call, and returns the rule's
\* result unchanged.
C2_DispatchSelectsTopRule ==
  /\ \A i \in 1..(Len(frames) - 1) :
       frames[i].fn = "custom_vjp" =>
         /\ frames[i + 1].fn = rules_map[ExpectedKind(frames[i].entry)]
         /\ frames[i + 1].args = frames[i].args
         /\ frames[i + 1].fwd = frames[i].fwd
         /\ frames[i + 1].bwd = frames[i].bwd
         /\ frames[i + 1].entry = frames[i].entry
  /\ ev.type = "dispatch_return" => (mode = "ret" /\ reg = ev.rule_result)
C2_Witness ==
  /\ ev.type = "dispatch_return"
  /\ Len(stack) >= 2
  /\ stack[Len(stack)].kind # stack[1].kind

\* C3: a dispatch made while the top-of-stack kind has no registered rule
\* raises an error naming the operator and that kind, invokes no rule and
\* leaves the interpreter stack as it was.
C3_UnregisteredKindFails ==
  /\ ev.type = "no_rule" =>
       /\ mode = "exc"
       /\ reg = Exc("RuntimeError", "custom_vjp", ExpectedKind(ev.stack))
       /\ rules_map[ExpectedKind(ev.stack)] = NoRule
       /\ stack = ev.stack
       /\ Len(frames) < ev.depth
       /\ \A i \in DOMAIN frames : frames[i].pc # "start"
  /\ \A i \in DOMAIN frames :
       frames[i].fn \in RuleNames =>
         rules_map[ExpectedKind(frames[i].entry)] # NoRule
C3_Witness ==
  /\ ev.type = "no_rule"
  /\ ev.stack # <<>>
  /\ frames # <<>>

\* what the forward_fn named fb returns for x, and the data of what the
\* backward_fn named bb returns for the output gradients gO, gx and the saved x
ExpectedForward(fb, x) ==
  IF fb = "f_fwd" THEN f_fwd(x)
  ELSE IF fb = "fwd_saves_moved" THEN Tup(<<TorchSin(x), MoveBdim(x)>>)
  ELSE Tup(<<TorchSin(x), NestedSaved(fb, x)>>)
ExpectedGradient(bb, gO, gx, x) ==
  IF bb = "f_bwd" THEN gO * 2 * x + gx ELSE gO * 2 * x

\* C4 as stated: with no transform active the dispatch returns exactly the
\* primary result of forward_fn(x), the saved values not being part of it.
C4_Original ==
  (CallEnded /\ outcome.what = "dispatch" /\ outcome.status = "returned"
     /\ entry_stack = <<>>) =>
     outcome.value = ExpectedForward(call_fns[1], call_args[1]).items[1]
\* C4 as amended: with no transform active the dispatch returns the pair
\* (primary result, saved values) that forward_fn(x) returned; its first
\* component is exactly the primary result of forward_fn(x).
C4_PlainReturnsPair ==
  (CallEnded /\ outcome.what = "dispatch" /\ outcome.status = "returned"
     /\ entry_stack = <<>>) =>
     /\ IsPair(outcome.value)
     /\ outcome.value.items[1] = ExpectedForward(call_fns[1], call_args[1]).items[1]
     /\ outcome.value.items[2] = ExpectedForward(call_fns[1], call_args[1]).items[2]
C4_Witness ==
  /\ CallEnded
  /\ outcome.what = "dispatch"
  /\ outcome.status = "returned"
  /\ entry_stack = <<>>
  /\ IsPair(outcome.value)

\* C5: pop_stack removes the top layer on entry and, on every exit of its
\* body, by return or by error, pushes that layer back: when the body left the
\* stack as it found it, the top of the stack after the exit is the layer that
\* was on top before the entry, and the stack is the one before the entry.
C5_PopStackRestores ==
  /\ ev.type = "pop_stack_enter" =>
       /\ ev.before # <<>>
       /\ stack = SubSeq(ev.before, 1, Len(ev.before) - 1)
       /\ ev.dl.kind = ev.before[Len(ev.before)].kind
       /\ ev.dl.layerId = ev.before[Len(ev.before)].layerId
  /\ (ev.type = "pop_stack_exit" /\ ev.body_exit = ev.body_entry) =>
       /\ stack # <<>>
       /\ stack[Len(stack)] = ev.entry[Len(ev.entry)]
       /\ stack[Len(stack)].kind = ev.dl.kind
       /\ stack[Len(stack)].layerId = ev.dl.layerId
       /\ stack = ev.entry
C5_Witness ==
  /\ ev.type = "pop_stack_exit"
  /\ ev.raised
  /\ ev.body_exit = ev.body_entry
  /\ stack = ev.entry

\* C6: push_stack pushes the given layer on entry and yields the level that
\* push assigned; on every exit of its body, by return or by error, it pops
\* exactly one layer, which is the layer it pushed when the body left the
\* stack as it found it.
C6_PushStackPops ==
  /\ ev.type = "push_stack_enter" =>
       /\ Len(stack) = Len(ev.before) + 1
       /\ SubSeq(stack, 1, Len(ev.before)) = ev.before
       /\ stack[Len(stack)].kind = ev.dl.kind
       /\ stack[Len(stack)].layerId = ev.dl.layerId
       /\ ev.new_level = stack[Len(stack)].level
       /\ Top.entry = stack
  /\ ev.type = "push_stack_exit" =>
       /\ Len(stack) = Len(ev.body_exit) - 1
       /\ stack = SubSeq(ev.body_exit, 1, Len(stack))
       /\ ev.body_exit = ev.body_entry =>
            /\ stack = ev.entry
            /\ ev.body_exit[Len(ev.body_exit)].kind = ev.dl.kind
            /\ ev.body_exit[Len(ev.body_exit)].layerId = ev.dl.layerId
C6_Witness ==
  /\ ev.type = "push_stack_exit"
  /\ ev.raised
  /\ ev.body_exit = ev.body_entry
  /\ ev.entry # <<>>

\* C7: an error raised during a call is never caught and suppressed: while it
\* unwinds the call stack it stays the same error, the scoped stack operations
\* on its way letting it through, and it is what the caller of the outermost
\* call gets.
C7_ErrorPropagates ==
  [][mode = "exc" =>
       IF frames # <<>>
       THEN mode' = "exc" /\ reg' = reg
       ELSE outcome'.status = "raised" /\ outcome'.value = reg]_vars
C7_Witness ==
  /\ CallEnded
  /\ outcome.what = "dispatch"
  /\ Raised("UserError")
  /\ Len(entry_stack) >= 2
  /\ entry_stack[1].kind = "grad"
  /\ entry_stack[2].kind = "vmap"

\* C8: a dispatch terminates: every call that has begun ends, without running
\* into the recursion limit, and each re-entry into the operator happens on a
\* strictly shorter interpreter stack than the dispatch it is nested in, so no
\* layer is selected twice.
NoReselect ==
  \A i, j \in DOMAIN frames :
    (i < j /\ frames[i].fn = "custom_vjp" /\ frames[j].fn = "custom_vjp") =>
       Len(frames[j].entry) < Len(frames[i].entry)
C8_Terminates ==
  /\ []NoReselect
  /\ (mode # "idle") ~> (mode = "idle" /\ ~Raised("RecursionError"))
C8_Witness ==
  /\ CallEnded
  /\ outcome.what = "dispatch"
  /\ outcome.status = "returned"
  /\ Len(entry_stack) >= 2

C10_GradientIsBackwardFn ==
  (CallEnded /\ outcome.what = "backward" /\ outcome.status = "returned") =>
     /\ outcome.value.data =
          [i \in 1..Len(call_args[1].data) |->
             ExpectedGradient(call_fns[2], outcome.grads[1], outcome.grads[2],
                              call_args[1].data[i])]
     /\ (graph[outcome.node].cls = "A" /\ graph[outcome.node].bwd.wraps = <<>>
           /\ Len(graph) = 1) =>
          outcome.value.wraps = <<>>
C10_Witness ==
  /\ CallEnded
  /\ outcome.what = "backward"
  /\ outcome.status = "returned"
  /\ outcome.grads = <<1, 0>>
  /\ graph[outcome.node].cls = "B"
  /\ graph[outcome.node].bwd.wraps = <<>>
  /\ outcome.value.data = [i \in 1..Len(call_args[1].data) |->
                             2 * call_args[1].data[i]]

\* C11: under one vmap layer the operator applied to a vector gives, element
\* by element, the primary result the operator gives for that element alone
\* with no transform, batched at the level of the layer; and the backward run
\* after the vmap has exited, for the gradient of the sum of the outputs
\* (gO = 1, gx = 0), gives element by element the gradient backward_fn gives
\* for that element: 2 * x for the example operator.
UnderOneVmap ==
  /\ Len(call_args) = 1
  /\ call_args[1].wraps = <<[t |-> "batched", level |-> 1, bdim |-> 0]>>
PlainResult(v) == f_fwd(Tensor(<<v>>, <<>>)).items[1].data[1]
PlainGradient(v) == f_bwd(Scalar(1), Scalar(0), Tensor(<<v>>, <<>>)).data[1]
C11_BatchedElementwise ==
  /\ (CallEnded /\ outcome.what = "dispatch" /\ outcome.status = "returned"
        /\ UnderOneVmap /\ Len(entry_stack) = 1) =>
       /\ IsPair(outcome.value)
       /\ outcome.value.items[1].wraps = call_args[1].wraps
       /\ outcome.value.items[1].data =
            [i \in 1..Len(call_args[1].data) |-> PlainResult(call_args[1].data[i])]
  /\ (CallEnded /\ outcome.what = "backward" /\ outcome.status = "returned"
        /\ UnderOneVmap /\ stack = <<>> /\ outcome.grads = <<1, 0>>) =>
       /\ outcome.value.wraps = <<>>
       /\ outcome.value.data =
            [i \in 1..Len(call_args[1].data) |-> PlainGradient(call_args[1].data[i])]
       /\ outcome.value.data =
            [i \in 1..Len(call_args[1].data) |-> 2 * call_args[1].data[i]]
C11_Witness ==
  /\ CallEnded
  /\ outcome.what = "backward"
  /\ outcome.status = "returned"
  /\ UnderOneVmap
  /\ stack = <<>>
  /\ outcome.grads = <<1, 0>>
  /\ Len(call_args[1].data) = 2
  /\ call_args[1].data[1] # call_args[1].data[2]

\* C12: the saved values a boundary's backward passes to backward_fn, the
\* stored flat sequence unflattened with the stored shape descriptor, are the
\* saved values the forward of that boundary invocation produced, in values
\* and in nested shape, whatever their nesting.
C12_SavedRoundTrip ==
  /\ \A i \in DOMAIN graph : SavedOf(graph[i]) = graph[i].fwd_saved
  /\ ev.type = "backward_start" =>
       /\ Len(Top.args) = 3
       /\ Top.args[3] = graph[ev.node].fwd_saved
       /\ TreeSpec(Top.args[3]) = TreeSpec(graph[ev.node].fwd_saved)
C12_Witness ==
  /\ ev.type = "backward_start"
  /\ graph[ev.node].cls = "B"
  /\ IsTup(Top.args[3])
  /\ Len(Top.args[3].items) = 3
  /\ Top.args[3].items[2] = Tup(<<>>)
  /\ IsTup(Top.args[3].items[1])

\* C13: one dispatch on a stack of layers of kinds k_n, ..., k_1 (top first)
\* selects the rules of k_n, ..., k_1 and then the Plain rule, in that order:
\* the j-th dispatch of the chain runs on the stack of the outermost one
\* without its top j - 1 layers and selects the rule of the layer then on
\* top, so each re-entry has exactly one layer fewer than the rule that made
\* it; a dispatch that returns has gone all the way down, leaving one
\* boundary per grad layer and the level-0 boundary of the Plain rule.
DispatchesUpTo(i) == Cardinality({j \in 1..i : frames[j].fn = "custom_vjp"})
GradLayers(stk) == {i \in DOMAIN stk : stk[i].kind = "grad"}
C13_PeelsOneLayer ==
  /\ \A i \in DOMAIN frames :
       frames[i].fn = "custom_vjp" =>
         /\ frames[1].fn = "custom_vjp"
         /\ DispatchesUpTo(i) <= Len(frames[1].entry) + 1
         /\ frames[i].entry =
              SubSeq(frames[1].entry, 1,
                     Len(frames[1].entry) - (DispatchesUpTo(i) - 1))
         /\ i < Len(frames) =>
              /\ frames[i + 1].fn = rules_map[ExpectedKind(frames[i].entry)]
              /\ frames[i + 1].entry = frames[i].entry
              /\ (frames[i + 1].fn = "custom_vjp_torch") =
                   (DispatchesUpTo(i) = Len(frames[1].entry) + 1)
         /\ \A j \in DOMAIN frames :
              (j < i /\ frames[j].fn \in RuleNames
                 /\ DispatchesUpTo(j) = DispatchesUpTo(i) - 1) =>
                Len(frames[i].entry) = Len(frames[j].entry) - 1
  /\ (CallEnded /\ outcome.what = "dispatch" /\ outcome.status = "returned") =>
       /\ Len(graph) = 1 + Cardinality(GradLayers(entry_stack))
       /\ graph[1].cls = "A"
       /\ \A i \in 2..Len(graph) :
            /\ graph[i].cls = "B"
            /\ graph[i].level \in GradLayers(entry_stack)
            /\ i > 2 => graph[i - 1].level < graph[i].level
C13_Witness ==
  /\ frames # <<>>
  /\ Top.fn = "custom_vjp_torch"
  /\ Len(frames[1].entry) = 2
  /\ frames[1].entry[1].kind # frames[1].entry[2].kind
  /\ DispatchesUpTo(Len(frames)) = 3

\* C14: in the wrapped backward of the batched rule the saved value is wrapped
\* again with the batch dim the forward recorded in the side channel for the
\* output position of the saved value (the second), and each output gradient
\* with the batch dim recorded for its own position, for every forward_fn.
LastBdim(x) == x.wraps[Len(x.wraps)].bdim
C14_SavedGetsRecordedBdim ==
  (ev.type = "push_stack_enter" /\ ev.fn = "batch_bwd") =>
     /\ side_channel[ev.level].set
     /\ LastBdim(Top.args[1]) = side_channel[ev.level].bdims[1]
     /\ LastBdim(Top.args[2]) = side_channel[ev.level].bdims[2]
     /\ LastBdim(Top.args[3]) = side_channel[ev.level].bdims[2]

\* C15: the batched rule called with no operand or with more than one fails
\* on its assertion before it removes or pushes a layer: no such call gets
\* past its first segment, and when it fails the interpreter stack is the one
\* the rule was entered with and no push has been made.
C15_OneOperandOrFail ==
  /\ \A i \in DOMAIN frames :
       (frames[i].fn = "custom_vjp_vmap" /\ Len(frames[i].args) # 1) =>
         /\ i = Len(frames)
         /\ frames[i].pc = "start"
         /\ stack = frames[i].entry
  /\ (ev.type = "raise" /\ ev.fn = "custom_vjp_vmap") =>
       /\ ev.nargs # 1
       /\ mode = "exc"
       /\ reg = Exc("AssertionError", "custom_vjp_vmap", "len(args) == 1")
       /\ stack = ev.entry
       /\ push_log = ev.pushes
  /\ (CallEnded /\ outcome.what = "dispatch" /\ entry_stack # <<>>
        /\ entry_stack[Len(entry_stack)].kind = "vmap"
        /\ rules_map["vmap"] # NoRule /\ Len(call_args) # 1) =>
       /\ Raised("AssertionError")
       /\ stack = entry_stack
C15_Witness ==
  /\ ev.type = "raise"
  /\ ev.fn = "custom_vjp_vmap"
  /\ ev.nargs = 2
  /\ Len(ev.entry) = 2
  /\ stack = ev.entry

\* C16: the side channel of an invocation of the batched rule is read only
\* after the wrapped forward of that invocation has recorded it: it is set
\* when the rule is about to wrap its result again and when the wrapped
\* backward is about to wrap the gradients, whatever layers lie below the
\* batched one; while the rule waits for its re-entry to return, the cell is
\* set only if the wrapped forward has come back.
C16_SideChannelSetBeforeRead ==
  /\ At("custom_vjp_vmap", "in_pop", "ret") => side_channel[Top.level].set
  /\ At("batch_bwd", "start", "run") => side_channel[Top.level].set
  /\ \A i \in DOMAIN frames :
       (frames[i].fn = "batch_fwd" /\ frames[i].pc = "in_push") =>
         ~side_channel[frames[i].level].set
C16_Witness ==
  /\ At("custom_vjp_vmap", "in_pop", "ret")
  /\ side_channel[Top.level].set
  /\ Len(Top.entry) = 2
  /\ Top.entry[1].kind = "grad"

\* C17: whenever the wrapped forward or the wrapped backward of the batched
\* rule runs, the level the push of the captured layer returns (new_level) is
\* the level the rule read from the top of the stack at its entry (level),
\* which is then the level of the layer on top of the stack, under any outer
\* layers and also when the backward runs after the rule has returned.
C17_NewLevelIsEntryLevel ==
  (ev.type = "push_stack_enter" /\ ev.fn \in {"batch_fwd", "batch_bwd"}) =>
     /\ ev.new_level = ev.level
     /\ top_layer(stack).level = ev.level

\* C18: during a dispatch the top layer is never queried and never popped on
\* an empty interpreter stack: the batched rule, the differentiated rule and
\* the forward of the nested boundary are entered only with a layer on the
\* stack, of the rule's kind for the two rules, and every pop_stack finds a
\* layer to remove.
NeedsLayer == {"custom_vjp_vmap", "custom_vjp_grad", "CustomFuncB_forward"}
C18_NoQueryOnEmptyStack ==
  /\ ev.type # "empty_stack"
  /\ \A i \in DOMAIN frames :
       frames[i].fn \in NeedsLayer =>
         /\ frames[i].entry # <<>>
         /\ frames[i].fn = "custom_vjp_vmap" =>
              frames[i].entry[Len(frames[i].entry)].kind = "vmap"
         /\ frames[i].fn \in {"custom_vjp_grad", "CustomFuncB_forward"} =>
              frames[i].entry[Len(frames[i].entry)].kind = "grad"
         /\ (i = Len(frames) /\ frames[i].pc = "start") => stack # <<>>
  /\ ev.type = "pop_stack_enter" => ev.before # <<>>
  /\ ~(outcome.status = "raised" /\ outcome.value.type = "RuntimeError"
         /\ outcome.value.b = "empty")
C18_Witness ==
  /\ ev.type = "pop_stack_enter"
  /\ ev.fn = "CustomFuncB_forward"
  /\ Len(ev.before) = 1
  /\ stack = <<>>
  /\ Len(frames[1].entry) = 2

====
